---- MODULE Spec2Model ----
(***************************************************************************)
(* State-machine model of src/js/protocols/stm32.js: the host side of the  *)
(* STM32 USART bootloader protocol (STM32_protocol).                       *)
(*                                                                         *)
(* JavaScript arrays are 0-based, TLA+ sequences 1-based: data[k] of the   *)
(* source is data[k + 1] here.                                             *)
(***************************************************************************)
EXTENDS Integers, Sequences, FiniteSets, TLC

---------------------------------------------------------------------------
(* Program constants *)

ACK == 121            \* status.ACK  0x79
NACK == 31            \* status.NACK 0x1F
CMD_get == 0
CMD_get_ID == 2
CMD_read_memory == 17       \* 0x11
CMD_go == 33                \* 0x21
CMD_write_memory == 49      \* 0x31
CMD_erase == 67             \* 0x43
CMD_extended_erase == 68    \* 0x44
PROBE == 127                \* 0x7F, the auto-baud byte
FLASH_BASE == 134217728     \* 0x8000000
CHUNK == 256                \* bytes per write-memory / read-memory exchange
PROBE_PERIOD == 250         \* ms, interval 'stm32_initialize_mcu'
WATCHDOG_PERIOD == 2000     \* ms, interval 'STM32_timeout'
MAX_SEND_COUNTER == 3       \* sendCounter++ > 3

(* Bounds of the model *)

MaxSessions == 2      \* sessions run one after another on the shared object
MaxChunk == 1         \* largest partial delivery of inbound bytes
MaxStale == 1         \* bytes still in flight when a device answers again
ShortLen == 2         \* payload length of the short image's segment
LongLen == 257        \* payload length of the long image's segment

Null == "null"
Undefined == "undefined"

---------------------------------------------------------------------------
(* JavaScript operators on numbers and arrays *)

RECURSIVE BitXor(_, _)
BitXor(a, b) ==
    IF a = 0 THEN b
    ELSE IF b = 0 THEN a
    ELSE (((a % 2) + (b % 2)) % 2) + (2 * BitXor(a \div 2, b \div 2))

RECURSIVE Pow2(_)
Pow2(n) == IF n = 0 THEN 1 ELSE 2 * Pow2(n - 1)

\* x >> n for a non-negative x below 2^31
ShiftRight(x, n) == x \div Pow2(n)

\* Math.ceil(a / b) for a >= 0, b > 0
MathCeilDiv(a, b) == (a + b - 1) \div b

\* XOR of seq[lo], ..., seq[hi] (0 when there is none), by halves
RECURSIVE XorRange(_, _, _)
XorRange(seq, lo, hi) ==
    IF lo > hi THEN 0
    ELSE IF lo = hi THEN seq[lo]
    ELSE LET mid == (lo + hi) \div 2
         IN  BitXor(XorRange(seq, lo, mid), XorRange(seq, mid + 1, hi))

\* checksum ^= x for every x of seq, starting from acc
XorFold(acc, seq) == BitXor(acc, XorRange(seq, 1, Len(seq)))

\* arr[idx] = v on a dense array, idx <= arr.length (idx = length appends)
ArraySet(arr, idx, v) ==
    IF idx < Len(arr) THEN [arr EXCEPT ![idx + 1] = v] ELSE Append(arr, v)

\* Array.from(n) for a number n: a number is neither iterable nor array-like,
\* so the result is the empty array whatever n is.
Array_from(n) == <<>>

\* a copy that keeps the numbers as they are
Uint8Array_set_asIs(bytes_to_send) == bytes_to_send

\* bufferView.set(bytes_to_send) on a Uint8Array: each element modulo 2^8
Uint8Array_set(bytes_to_send) ==
    [i \in 1..Len(bytes_to_send) |-> bytes_to_send[i] % 256]

---------------------------------------------------------------------------
(* Firmware images handed to connect (hex) *)

Pattern(len, seed) == [i \in 1..len |-> (seed + 7 * i) % 256]

Segment(address, payload) ==
    [address |-> address, bytes |-> Len(payload), data |-> payload]

RECURSIVE SumBytes(_)
SumBytes(segs) ==
    IF segs = <<>> THEN 0 ELSE Head(segs).bytes + SumBytes(Tail(segs))

Image(segs) == [bytes_total |-> SumBytes(segs), data |-> segs]

Images ==
    { Image(<< Segment(FLASH_BASE, Pattern(ShortLen, 164)) >>),
      Image(<< Segment(FLASH_BASE, Pattern(LongLen, 3)),
               Segment(FLASH_BASE + 1024, Pattern(ShortLen, 200)) >>) }

\* an image as large as the flash of the high-density chips (0x40000 bytes),
\* larger than the flash of the medium-density one
OversizeImage == Image(<< Segment(FLASH_BASE, Pattern(262144, 5)) >>)

\* single-segment images at the start of the flash, of lengths around the
\* page sizes of the known chips (1024 and 2048)
PageLens == {1, 1024, 1025, 2048, 2049}
PageImages == { Image(<< Segment(FLASH_BASE, Pattern(L, 9)) >>) : L \in PageLens }

\* two segments in ascending address order, the second inside the first:
\* the first one ends a page later than the last one does
NestedImage ==
    Image(<< Segment(FLASH_BASE, Pattern(1025, 11)),
             Segment(FLASH_BASE + 512, Pattern(ShortLen, 77)) >>)

\* images of one short segment far from the start of the flash: in the last
\* page of a flash of 128 pages of 1024 bytes, on the last byte of that flash,
\* in the last page of one of 128 pages of 2048 bytes, and right after the
\* end of that
HighOffsets == {127 * 1024, (128 * 1024) - 1, 127 * 2048, 128 * 2048}
HighImages ==
    { Image(<< Segment(FLASH_BASE + o, Pattern(ShortLen, 21)) >>) : o \in HighOffsets }

---------------------------------------------------------------------------
VARIABLES
    \* fields of the STM32_protocol object
    hex, options, callback, verify_hex, receive_buffer, bytesToRead,
    read_callback, upload_process_alive, available_flash_size, page_size,
    useExtendedErase,
    \* variables of the running upload_procedure closures
    sendCounter, blocks, flashing_block, address, bytes_flashed, bytesToWrite,
    \* GUI intervals and the serial port
    timers, connectionId, listening, disconnecting, line, devAwait,
    \* history of the current session
    session, stage, step, sent, dataChunks, messages, threw,
    rxBlocks, silent, phase99Count, disconnectCount, callbackCount, device,
    idleTicks,
    \* watchdog ticks since the last frame went out
    ticksSinceSend

vars ==
    << hex, options, callback, verify_hex, receive_buffer, bytesToRead,
       read_callback, upload_process_alive, available_flash_size, page_size,
       useExtendedErase,
       sendCounter, blocks, flashing_block, address, bytes_flashed, bytesToWrite,
       timers, connectionId, listening, disconnecting, line, devAwait,
       session, stage, step, sent, dataChunks, messages, threw,
       rxBlocks, silent, phase99Count, disconnectCount, callbackCount, device,
       idleTicks, ticksSinceSend >>

\* the current state as one record, the form the handlers are written on
Self ==
    [ hex |-> hex, options |-> options, callback |-> callback,
      verify_hex |-> verify_hex, receive_buffer |-> receive_buffer,
      bytesToRead |-> bytesToRead, read_callback |-> read_callback,
      upload_process_alive |-> upload_process_alive,
      available_flash_size |-> available_flash_size, page_size |-> page_size,
      useExtendedErase |-> useExtendedErase,
      sendCounter |-> sendCounter, blocks |-> blocks,
      flashing_block |-> flashing_block, address |-> address,
      bytes_flashed |-> bytes_flashed, bytesToWrite |-> bytesToWrite,
      timers |-> timers, connectionId |-> connectionId, listening |-> listening,
      disconnecting |-> disconnecting, line |-> line, devAwait |-> devAwait,
      session |-> session, stage |-> stage, step |-> step, sent |-> sent,
      dataChunks |-> dataChunks, messages |-> messages, threw |-> threw,
      phase99Count |-> phase99Count, disconnectCount |-> disconnectCount,
      callbackCount |-> callbackCount, device |-> device,
      rxBlocks |-> rxBlocks, silent |-> silent, idleTicks |-> idleTicks,
      ticksSinceSend |-> ticksSinceSend ]

Commit(t) ==
    /\ hex' = t.hex /\ options' = t.options /\ callback' = t.callback
    /\ verify_hex' = t.verify_hex /\ receive_buffer' = t.receive_buffer
    /\ bytesToRead' = t.bytesToRead /\ read_callback' = t.read_callback
    /\ upload_process_alive' = t.upload_process_alive
    /\ available_flash_size' = t.available_flash_size
    /\ page_size' = t.page_size /\ useExtendedErase' = t.useExtendedErase
    /\ sendCounter' = t.sendCounter /\ blocks' = t.blocks
    /\ flashing_block' = t.flashing_block /\ address' = t.address
    /\ bytes_flashed' = t.bytes_flashed /\ bytesToWrite' = t.bytesToWrite
    /\ timers' = t.timers /\ connectionId' = t.connectionId
    /\ listening' = t.listening /\ disconnecting' = t.disconnecting
    /\ line' = t.line /\ devAwait' = t.devAwait
    /\ session' = t.session /\ stage' = t.stage /\ step' = t.step
    /\ sent' = t.sent /\ dataChunks' = t.dataChunks
    /\ messages' = t.messages /\ threw' = t.threw
    /\ phase99Count' = t.phase99Count /\ disconnectCount' = t.disconnectCount
    /\ callbackCount' = t.callbackCount
    /\ rxBlocks' = t.rxBlocks /\ silent' = t.silent
    /\ device' = t.device /\ idleTicks' = t.idleTicks
    /\ ticksSinceSend' = t.ticksSinceSend

---------------------------------------------------------------------------
(* The serial port and the GUI intervals, as the protocol uses them *)

TimerOff == [active |-> FALSE, left |-> 0]

\* GUI.interval_add(name, code, period): the timer part (a first call of
\* code, when asked for, is made by the caller before this)
interval_add(s, name, period) ==
    [s EXCEPT !.timers[name] = [active |-> TRUE, left |-> period]]

\* GUI.interval_remove(name)
interval_remove(s, name) == [s EXCEPT !.timers[name] = TimerOff]

\* serial.send(bufferOut): the frame goes out and the device has a frame to
\* answer; nothing reaches a device over a closed port
serial_send(s, frame) ==
    [s EXCEPT !.sent = Append(@, frame),
              !.ticksSinceSend = 0,
              !.devAwait = IF s.connectionId THEN TRUE ELSE @]

\* serial.disconnect(callback): the port is closed, its listeners are gone
\* and what was in flight is lost; callback runs once the close completed
serial_disconnect(s) ==
    [s EXCEPT !.connectionId = FALSE, !.listening = FALSE,
              !.disconnecting = TRUE, !.line = <<>>, !.devAwait = FALSE,
              !.disconnectCount = @ + 1]

---------------------------------------------------------------------------
(* STM32_protocol.prototype: the port I/O shim *)

\* `self` inside cleanup: cleanup declares no `self` (the other methods do,
\* const self = this), so the name is the global object's `self`, the global
\* object itself, which has no property `callback`.
cleanup_self == [callback |-> Undefined]

cleanup(s) ==
    [s EXCEPT !.stage = "finished",
              !.callbackCount =
                  IF cleanup_self.callback # Undefined THEN @ + 1 ELSE @]

\* case 99 of upload_procedure with the watchdog left running
upload_procedure_99_keepWatchdog(s) ==
    LET s1 == [s EXCEPT !.phase99Count = @ + 1]
    IN  IF s1.connectionId THEN serial_disconnect(s1) ELSE cleanup(s1)

\* case 99 of upload_procedure: stop the watchdog, close the port if it is
\* open (cleanup follows the close), else cleanup at once
upload_procedure_99(s) ==
    LET s1 == [interval_remove(s, "STM32_timeout")
                   EXCEPT !.phase99Count = @ + 1]
    IN  IF s1.connectionId THEN serial_disconnect(s1) ELSE cleanup(s1)

send(s, bytes_to_send, nBytes, cb) ==
    serial_send([s EXCEPT !.upload_process_alive = TRUE,
                          !.bytesToRead = nBytes,
                          !.read_callback = cb,
                          !.receive_buffer = <<>>],
                Uint8Array_set(bytes_to_send))

\* the test that lets every byte pass
verify_response_ok_any(val, data) == TRUE

verify_response_ok(val, data) == val = data[1]

\* the flag read one index too low
extendedEraseAdvertised_index6(data) ==
    Len(data) >= 7 /\ data[7] = CMD_extended_erase

\* data[7] === self.command.extended_erase (undefined when the block is short)
extendedEraseAdvertised(data) ==
    Len(data) >= 8 /\ data[8] = CMD_extended_erase

\* the address frame of phases 5 and 6: four shifted values and their XOR
addressFrame(a) ==
    LET addressArray == << ShiftRight(a, 24), ShiftRight(a, 16),
                           ShiftRight(a, 8), a >>
        addressChecksum == BitXor(BitXor(BitXor(addressArray[1], addressArray[2]),
                                         addressArray[3]), addressArray[4])
    IN  Append(addressArray, addressChecksum)

\* the data frame of one write chunk, built as the write callback builds it
arrayOutFrame(payload, n) ==
    LET a0 == Array_from(n + 2)
        a1 == ArraySet(a0, 0, n - 1)
        a2 == a1 \o payload                 \* arrayOut[ii + 1] = data[...]
        checksum == XorFold(a1[1], payload)
    IN  ArraySet(a2, Len(a2) - 1, checksum)

\* bytes of the page list of a partial erase, extended dialect
\* for (i..n-1): push(i >> 8), push(i & 0xFF)
extendedPages(i, n) ==
    IF i >= n THEN <<>>
    ELSE [k \in 1..(2 * (n - i)) |->
             LET pg == i + ((k - 1) \div 2)
             IN  IF k % 2 = 1 THEN ShiftRight(pg, 8) ELSE pg % 256]

extendedEraseList(erasePagesN) ==
    LET head == << ShiftRight(erasePagesN - 1, 8), (erasePagesN - 1) % 256 >>
        buff == head \o extendedPages(0, erasePagesN)
    IN  Append(buff, XorFold(0, buff))

\* the classic list with the count left out of the checksum
classicEraseList_checksumOfPages(erasePagesN) ==
    LET pages == [i \in 1..erasePagesN |-> i - 1]
    IN  (<< erasePagesN - 1 >> \o pages) \o << XorFold(0, pages) >>

classicEraseList(erasePagesN) ==
    LET buff == << erasePagesN - 1 >> \o [i \in 1..erasePagesN |-> i - 1]
    IN  Append(buff, XorFold(0, buff))

\* [0xFF, 0xFF, 0x00]: the special page count of a global extended erase
\* and its checksum
extendedGlobalErase == << 255, 255, 0 >>

\* the global page count with its checksum byte left out
globalErase_noChecksum == << 255 >>

\* [0xFF, 0x00]: the global page count of the classic erase and its checksum
globalErase == << 255, 0 >>

\* the page count as floor + 1
erasePagesOf_floorPlusOne(s) ==
    LET last == s.hex.data[Len(s.hex.data)]
        maxAddress == last.address + last.bytes - FLASH_BASE
    IN  (maxAddress \div s.page_size) + 1

\* the page count taken from the first segment
erasePagesOf_firstSegment(s) ==
    LET first == s.hex.data[1]
        maxAddress == first.address + first.bytes - FLASH_BASE
    IN  MathCeilDiv(maxAddress, s.page_size)

erasePagesOf(s) ==
    LET last == s.hex.data[Len(s.hex.data)]
        maxAddress == last.address + last.bytes - FLASH_BASE
    IN  MathCeilDiv(maxAddress, s.page_size)

\* the chip registry: what the switch of verify_chip_signature assigns
signatureGeometry(signature) ==
    CASE signature = 1040 -> [known |-> TRUE, flash |-> 131072, page |-> 1024]
      [] signature = 1044 -> [known |-> TRUE, flash |-> 262144, page |-> 2048]
      [] signature = 1058 -> [known |-> TRUE, flash |-> 262144, page |-> 2048]
      [] OTHER -> [known |-> FALSE, flash |-> 0, page |-> 0]

verify_chip_signature_set(s, signature) ==
    LET g == signatureGeometry(signature)
    IN  IF g.known
        THEN [s EXCEPT !.available_flash_size = g.flash, !.page_size = g.page]
        ELSE s

\* the size test with <= in the place of <
verify_chip_signature_result_orEqual(s) ==
    IF s.available_flash_size > 0
    THEN s.hex.bytes_total <= s.available_flash_size
    ELSE FALSE

verify_chip_signature_result(s) ==
    IF s.available_flash_size > 0
    THEN s.hex.bytes_total < s.available_flash_size
    ELSE FALSE

---------------------------------------------------------------------------
(* STM32_protocol.prototype.upload_procedure and its callbacks *)

RECURSIVE upload_procedure(_, _)
RECURSIVE invoke(_, _, _)
RECURSIVE write(_)

\* verify_response that reports nothing and lets the session be
verify_response_noAbort(s, val, data) == s

\* verify_response: a wrong first byte reports and calls upload_procedure(99)
verify_response(s, val, data) ==
    IF verify_response_ok(val, data) THEN s
    ELSE upload_procedure([s EXCEPT !.messages = @ \cup {"stm32WrongResponse"}], 99)

\* retrieve that hands over what is there without waiting for the rest
retrieve_noWait(s, nBytes, cb) ==
    LET have == IF Len(s.receive_buffer) >= nBytes
                THEN nBytes ELSE Len(s.receive_buffer)
    IN  invoke([s EXCEPT !.receive_buffer = SubSeq(@, have + 1, Len(@))],
               cb, SubSeq(s.receive_buffer, 1, have))

retrieve(s, nBytes, cb) ==
    IF Len(s.receive_buffer) >= nBytes
    THEN invoke([s EXCEPT !.receive_buffer =
                     SubSeq(@, nBytes + 1, Len(@))],
                cb, SubSeq(s.receive_buffer, 1, nBytes))
    ELSE [s EXCEPT !.bytesToRead = nBytes, !.read_callback = cb]

\* read that fires only when more than the bytes asked for are there
read_exceeds(s, data) ==
    LET buf == s.receive_buffer \o data
        s1 == [s EXCEPT !.receive_buffer = buf]
    IN  IF Len(buf) > s.bytesToRead /\ s.bytesToRead # 0
        THEN invoke([s1 EXCEPT !.receive_buffer =
                         SubSeq(buf, s.bytesToRead + 1, Len(buf)),
                                !.bytesToRead = 0],
                    s.read_callback, SubSeq(buf, 1, s.bytesToRead))
        ELSE s1

read(s, data) ==
    LET buf == s.receive_buffer \o data
        s1 == [s EXCEPT !.receive_buffer = buf]
    IN  IF Len(buf) >= s.bytesToRead /\ s.bytesToRead # 0
        THEN invoke([s1 EXCEPT !.receive_buffer =
                         SubSeq(buf, s.bytesToRead + 1, Len(buf)),
                                !.bytesToRead = 0],
                    s.read_callback, SubSeq(buf, 1, s.bytesToRead))
        ELSE s1

\* the interval body giving up without removing its own interval
probe_keepInterval(s) ==
    LET s1 == send(s, << PROBE >>, 1, "probe_reply")
        s2 == [s1 EXCEPT !.sendCounter = @ + 1]
    IN  IF s.sendCounter > MAX_SEND_COUNTER
        THEN upload_procedure(
                 interval_remove(
                     [s2 EXCEPT !.messages = @ \cup {"stm32ResponseBootloaderFailed"}],
                     "STM32_timeout"),
                 99)
        ELSE s2

\* the body of the interval 'stm32_initialize_mcu'
probe(s) ==
    LET s1 == send(s, << PROBE >>, 1, "probe_reply")
        s2 == [s1 EXCEPT !.sendCounter = @ + 1]
    IN  IF s.sendCounter > MAX_SEND_COUNTER
        THEN upload_procedure(
                 interval_remove(
                     interval_remove(
                         [s2 EXCEPT !.messages = @ \cup {"stm32ResponseBootloaderFailed"}],
                         "stm32_initialize_mcu"),
                     "STM32_timeout"),
                 99)
        ELSE s2

\* the interval body with its test the wrong way round
STM32_timeout_inverted(s) ==
    IF ~s.upload_process_alive
    THEN [s EXCEPT !.upload_process_alive = FALSE]
    ELSE upload_procedure(
             interval_remove([s EXCEPT !.messages = @ \cup {"stm32TimedOut"}],
                             "STM32_timeout"),
             99)

\* the interval body that leaves the flag set when it finds it set
STM32_timeout_flagKept(s) ==
    IF s.upload_process_alive
    THEN s
    ELSE upload_procedure(
             interval_remove([s EXCEPT !.messages = @ \cup {"stm32TimedOut"}],
                             "STM32_timeout"),
             99)

\* the body of the interval 'STM32_timeout'
STM32_timeout(s) ==
    IF s.upload_process_alive
    THEN [s EXCEPT !.upload_process_alive = FALSE]
    ELSE upload_procedure(
             interval_remove([s EXCEPT !.messages = @ \cup {"stm32TimedOut"}],
                             "STM32_timeout"),
             99)

\* a full chunk one byte short of 256
chunkLength_short(done, bytes) ==
    IF done + CHUNK <= bytes THEN CHUNK - 1 ELSE bytes - done

\* ((done + 256) <= bytes) ? 256 : (bytes - done)
chunkLength(done, bytes) ==
    IF done + CHUNK <= bytes THEN CHUNK ELSE bytes - done

\* write that drops a finished segment from the image to get to the next
write_shiftBlocks(s) ==
    LET seg == s.hex.data[s.flashing_block + 1]
    IN  IF s.bytes_flashed < seg.bytes
        THEN send([s EXCEPT !.bytesToWrite =
                       chunkLength(s.bytes_flashed, seg.bytes)],
                  << CMD_write_memory, 206 >>, 1, "write_cmd")
        ELSE IF s.flashing_block < s.blocks
        THEN write([s EXCEPT !.hex.data = Tail(@),
                             !.blocks = @ - 1,
                             !.address = s.hex.data[s.flashing_block + 2].address,
                             !.bytes_flashed = 0])
        ELSE upload_procedure(s, 6)

write(s) ==
    LET seg == s.hex.data[s.flashing_block + 1]
    IN  IF s.bytes_flashed < seg.bytes
        THEN send([s EXCEPT !.bytesToWrite =
                       chunkLength(s.bytes_flashed, seg.bytes)],
                  << CMD_write_memory, 206 >>, 1, "write_cmd")
        ELSE IF s.flashing_block < s.blocks
        THEN write([s EXCEPT !.flashing_block = @ + 1,
                             !.address = s.hex.data[s.flashing_block + 2].address,
                             !.bytes_flashed = 0])
        ELSE upload_procedure(s, 6)

\* the callback of the probe going on to phase 2 with its interval running
probe_reply_keepInterval(s, reply) ==
    IF reply[1] = PROBE \/ reply[1] = ACK \/ reply[1] = NACK
    THEN upload_procedure(s, 2)
    ELSE upload_procedure(
             interval_remove(
                 [s EXCEPT !.messages = @ \cup {"stm32ContactingBootloaderFailed"}],
                 "stm32_initialize_mcu"),
             99)

\* the callback given to send by the probe
probe_reply(s, reply) ==
    IF reply[1] = PROBE \/ reply[1] = ACK \/ reply[1] = NACK
    THEN upload_procedure(interval_remove(s, "stm32_initialize_mcu"), 2)
    ELSE upload_procedure(
             interval_remove(
                 [s EXCEPT !.messages = @ \cup {"stm32ContactingBootloaderFailed"}],
                 "stm32_initialize_mcu"),
             99)

\* every callback handed to send or retrieve, by the place it is written
invoke(s, cb, data) ==
    CASE cb = "probe_reply" -> probe_reply(s, data)
      [] cb = "get_reply" ->
           IF verify_response_ok(ACK, data)
           THEN retrieve(s, data[2] + 1 + 1, "get_block")
           ELSE verify_response(s, ACK, data)
      [] cb = "get_block" ->
           upload_procedure(
               [s EXCEPT !.useExtendedErase = extendedEraseAdvertised(data),
                         !.rxBlocks = Append(@,
                             [cb |-> cb, data |-> data, to |-> 3])],
               3)
      [] cb = "get_ID_reply" ->
           IF verify_response_ok(ACK, data)
           THEN retrieve(s, data[2] + 1 + 1, "get_ID_block")
           ELSE verify_response(s, ACK, data)
      [] cb = "get_ID_block" ->
           LET signature == (data[1] * 256) + data[2]
               s1 == verify_chip_signature_set(s, signature)
               to == IF verify_chip_signature_result(s1) THEN 4 ELSE 99
           IN  upload_procedure(
                   [s1 EXCEPT !.rxBlocks = Append(@,
                        [cb |-> cb, data |-> data, to |-> to])],
                   to)
      [] cb = "extended_global_cmd" ->
           IF verify_response_ok(ACK, data)
           THEN send(s, extendedGlobalErase, 1, "erase_done")
           ELSE verify_response(s, ACK, data)
      [] cb = "extended_local_cmd" ->
           IF verify_response_ok(ACK, data)
           THEN send(s, extendedEraseList(erasePagesOf(s)), 1, "erase_done")
           ELSE verify_response(s, ACK, data)
      [] cb = "global_cmd" ->
           IF verify_response_ok(ACK, data)
           THEN send(s, globalErase, 1, "erase_done")
           ELSE verify_response(s, ACK, data)
      [] cb = "local_cmd" ->
           IF verify_response_ok(ACK, data)
           THEN send(s, classicEraseList(erasePagesOf(s)), 1, "erase_done")
           ELSE verify_response(s, ACK, data)
      [] cb = "erase_done" ->
           IF verify_response_ok(ACK, data)
           THEN upload_procedure(s, 5)
           ELSE verify_response(s, ACK, data)
      [] cb = "write_cmd" ->
           IF verify_response_ok(ACK, data)
           THEN send(s, addressFrame(s.address), 1, "write_address")
           ELSE verify_response(s, ACK, data)
      [] cb = "write_address" ->
           IF verify_response_ok(ACK, data)
           THEN LET n == s.bytesToWrite
                    payload == SubSeq(s.hex.data[s.flashing_block + 1].data,
                                      s.bytes_flashed + 1, s.bytes_flashed + n)
                    arrayOut == arrayOutFrame(payload, n)
                IN  send([s EXCEPT !.bytes_flashed = @ + n,
                                   !.address = @ + n,
                                   !.dataChunks = Append(@,
                                       [payload |-> payload, frame |-> arrayOut,
                                        block |-> s.flashing_block,
                                        at |-> s.address,
                                        addr |-> s.sent[Len(s.sent)]])],
                         arrayOut, 1, "write_data")
           ELSE verify_response(s, ACK, data)
      [] cb = "write_data" ->
           IF verify_response_ok(ACK, data)
           THEN write(s)
           ELSE verify_response(s, ACK, data)
      [] cb = "go_reply" ->
           IF verify_response_ok(ACK, data)
           THEN [s EXCEPT !.threw = TRUE]     \* address = [...]: see step 6
           ELSE verify_response(s, ACK, data)
      [] OTHER -> s

upload_procedure(s0, stp) ==
    LET s == [s0 EXCEPT !.step = stp]
    IN  CASE stp = 1 ->
               \* let sendCounter = 0; interval_add(..., 250, true): the body
               \* runs once at once, then every 250 ms
               interval_add(probe([s EXCEPT !.sendCounter = 0]),
                            "stm32_initialize_mcu", PROBE_PERIOD)
          [] stp = 2 -> send(s, << CMD_get, 255 >>, 2, "get_reply")
          [] stp = 3 -> send(s, << CMD_get_ID, 253 >>, 2, "get_ID_reply")
          [] stp = 4 ->
               IF s.useExtendedErase
               THEN send(s, << CMD_extended_erase, 187 >>, 1,
                         IF s.options.erase_chip THEN "extended_global_cmd"
                                                 ELSE "extended_local_cmd")
               ELSE send(s, << CMD_erase, 188 >>, 1,
                         IF s.options.erase_chip THEN "global_cmd"
                                                 ELSE "local_cmd")
          [] stp = 5 ->
               write([s EXCEPT !.blocks = Len(s.hex.data) - 1,
                               !.flashing_block = 0,
                               !.address = s.hex.data[1].address,
                               !.bytes_flashed = 0])
          [] stp = 6 ->
               \* blocks = ...: `let blocks` belongs to the switch block and is
               \* initialized only when case 5 runs in the same call; in this
               \* call the binding is uninitialized and the assignment throws
               \* a ReferenceError, which leaves through read() uncaught
               [s EXCEPT !.threw = TRUE]
          [] stp = 7 -> send(s, << CMD_go, 222 >>, 1, "go_reply")
          [] stp = 99 -> upload_procedure_99(s)
          [] OTHER -> s

\* verify_flash(firstArray, secondArray): false at the first index of
\* firstArray where the two differ (secondArray is at least as long here)
verify_flash(firstArray, secondArray) ==
    \A i \in 1..Len(firstArray) :
        i <= Len(secondArray) /\ firstArray[i] = secondArray[i]

\* the loop over the blocks with its break left out: the last block decides
verifyBlocks_noBreak(s, i) ==
    verify_flash(s.hex.data[Len(s.hex.data)].data, s.verify_hex[Len(s.hex.data)])

\* for (i = 0; i <= blocks; i++) { verify = verify_flash(...); if (!verify) break; }
RECURSIVE verifyBlocks(_, _)
verifyBlocks(s, i) ==
    IF i > Len(s.hex.data) - 1 THEN TRUE
    ELSE IF ~verify_flash(s.hex.data[i + 1].data, s.verify_hex[i + 1]) THEN FALSE
    ELSE verifyBlocks(s, i + 1)

\* the last branch of reading(): all blocks read, verify, then phase 7 or 99
reading_verify(s) ==
    IF verifyBlocks(s, 0)
    THEN upload_procedure(s, 7)
    ELSE upload_procedure(
             [s EXCEPT !.messages = @ \cup {"stm32ProgrammingFailed"}], 99)

initialize(s) ==
    upload_procedure(
        interval_add([s EXCEPT !.receive_buffer = <<>>,
                               !.verify_hex = <<>>,
                               !.upload_process_alive = FALSE,
                               !.listening = TRUE,
                               !.stage = "running"],
                     "STM32_timeout", WATCHDOG_PERIOD),
        1)

---------------------------------------------------------------------------
(* The device at the other end of the port *)

KnownIds == {1040, 1044, 1058}              \* 0x410, 0x414, 0x422
NoGeometryIds ==                             \* recognized, no geometry set
    {1042, 1048, 1056, 1064, 1072, 1046, 1078, 1063, 1041, 1088, 1092,
     1043, 1049, 1074}
\* ids a device of the model may report: 0x410, 0x414, two recognized
\* without geometry (0x412, 0x432) and 0x641, which no case of the switch names
DeviceIds == {1040, 1044, 1042, 1074, 1601}

\* answer to GET: ACK, N = 11, bootloader version, 11 command bytes, ACK
GetReply(eraseCmd, last) ==
    << ACK, 11, 34, 0, 1, 2, 17, 33, 49, eraseCmd, 99, 115, 130, 146, last >>

\* answer to GET ID: ACK, N = 1, the two id bytes, ACK
IdReply(id, last) == << ACK, 1, id \div 256, id % 256, last >>

\* a write-memory data frame as the bootloader takes it: N - 1, N bytes and
\* their checksum; with fewer bytes it keeps waiting and answers nothing
DataFrameReply(frame) ==
    IF Len(frame) < frame[1] + 3 THEN <<>>
    ELSE IF XorFold(0, SubSeq(frame, 1, frame[1] + 3)) = 0 THEN << ACK >>
    ELSE << NACK >>

\* what a device that follows the bootloader protocol answers to the frame
\* the session sent last
FaithfulReplies(s) ==
    LET cb == s.read_callback
        frame == s.sent[Len(s.sent)]
    IN  CASE cb = "probe_reply" -> {<< ACK >>}
          [] cb = "get_reply" ->
               {GetReply(CMD_erase, ACK), GetReply(CMD_extended_erase, ACK)}
          [] cb = "get_ID_reply" -> {IdReply(id, ACK) : id \in {1040, 1058}}
          [] cb = "write_data" -> {DataFrameReply(frame)}
          [] OTHER -> {<< ACK >>}

\* what any device may answer: the above, and malformed or negative answers
AnyReplies(s) ==
    LET cb == s.read_callback
    IN  CASE cb = "probe_reply" -> {<< ACK >>, << NACK >>, << PROBE >>, << 0 >>}
          [] cb = "get_reply" ->
               {GetReply(CMD_erase, ACK), GetReply(CMD_extended_erase, ACK),
                GetReply(CMD_extended_erase, NACK), << ACK, 0, 34, ACK >>,
                << NACK >>, << NACK, NACK >>}
          [] cb = "get_ID_reply" ->
               {IdReply(id, ACK) : id \in DeviceIds}
                   \cup {IdReply(1040, NACK), << NACK >>, << NACK, NACK >>}
                   \* a length byte other than 1: N = 2 and N = 0
                   \cup {<< ACK, 2, 4, 16, 0, ACK >>, << ACK, 0, 4, ACK >>}
          [] OTHER -> {<< ACK >>, << NACK >>}

Replies(s) == IF s.device = "faithful" THEN FaithfulReplies(s) ELSE AnyReplies(s)

\* a device that answers in time: no timer comes due while it owes an answer
\* or while bytes of its answer are still on their way
InTime == device = "faithful" => (~devAwait /\ line = <<>>)

ChunkSizes(l) == {k \in 1..Len(l) : k <= MaxChunk \/ k = Len(l)}

---------------------------------------------------------------------------
(* The state after construction, and one action per operation or handler *)

InitObject ==
    /\ hex = Null /\ options = [erase_chip |-> FALSE] /\ callback = Null
    /\ verify_hex = <<>> /\ receive_buffer = <<>>
    /\ bytesToRead = 0 /\ read_callback = Null
    /\ upload_process_alive = FALSE
    /\ available_flash_size = 0 /\ page_size = 0 /\ useExtendedErase = FALSE
    /\ sendCounter = 0 /\ blocks = 0 /\ flashing_block = 0 /\ address = 0
    /\ bytes_flashed = 0 /\ bytesToWrite = 0
    /\ timers = [n \in {"stm32_initialize_mcu", "STM32_timeout"} |-> TimerOff]
    /\ connectionId = FALSE /\ listening = FALSE /\ disconnecting = FALSE
    /\ line = <<>> /\ devAwait = FALSE
    /\ session = 0 /\ stage = "idle" /\ step = 0 /\ sent = <<>>
    /\ dataChunks = <<>> /\ messages = {} /\ threw = FALSE
    /\ phase99Count = 0 /\ disconnectCount = 0 /\ callbackCount = 0
    /\ rxBlocks = <<>> /\ silent = TRUE /\ idleTicks = 0
    /\ ticksSinceSend = 0

Init == InitObject /\ device = "any"

InitFaithful == InitObject /\ device = "faithful"

\* STM32.connect(port, baud, hex, options, callback), options.no_reboot set:
\* the fields are stored and the port is asked to open
connect(h, erase_chip) ==
    /\ stage \in {"idle", "finished", "open_failed"}
    /\ session < MaxSessions
    /\ Commit([Self EXCEPT
                 !.hex = h, !.options = [erase_chip |-> erase_chip],
                 !.callback = session + 1,
                 !.session = @ + 1, !.stage = "opening",
                 \* the history starts again with each session
                 !.step = 0, !.sent = <<>>, !.dataChunks = <<>>,
                 !.messages = {}, !.threw = FALSE, !.phase99Count = 0,
                 !.disconnectCount = 0, !.callbackCount = 0,
                 !.rxBlocks = <<>>, !.silent = TRUE, !.idleTicks = 0,
                 !.ticksSinceSend = 0,
                 \* the closures of the session before are garbage
                 !.sendCounter = 0, !.blocks = 0, !.flashing_block = 0,
                 !.address = 0, !.bytes_flashed = 0, !.bytesToWrite = 0,
                 !.line = <<>>])

\* the callback of serial.connect with openInfo: initialize()
PortOpened ==
    /\ stage = "opening"
    /\ Commit(initialize([Self EXCEPT !.connectionId = TRUE]))

\* the callback of serial.connect without openInfo: a log line, nothing else
PortOpenFailed ==
    /\ stage = "opening"
    /\ Commit([Self EXCEPT !.stage = "open_failed",
                           !.messages = @ \cup {"serialPortOpenFail"}])

\* the device answers the last frame (or never does: nothing forces this)
DeviceRespond ==
    /\ devAwait /\ connectionId /\ Len(line) <= MaxStale
    /\ \E r \in Replies(Self) :
          /\ Commit([Self EXCEPT !.line = @ \o r, !.devAwait = FALSE,
                                  !.silent = @ /\ r = <<>>])

\* serial.onReceive: the listener calls read(info) with the next bytes
Receive ==
    /\ listening /\ line # <<>>
    /\ \E k \in ChunkSizes(line) :
          Commit(read([Self EXCEPT !.line = SubSeq(@, k + 1, Len(@))],
                      SubSeq(line, 1, k)))

Probe == timers["stm32_initialize_mcu"]
Watchdog == timers["STM32_timeout"]

\* the 250 ms interval comes due (before the watchdog does)
ProbeTick ==
    /\ Probe.active /\ InTime
    /\ Watchdog.active => Probe.left < Watchdog.left
    /\ Commit(probe([Self EXCEPT
                       !.timers["STM32_timeout"].left =
                           IF Watchdog.active THEN @ - Probe.left ELSE @,
                       !.timers["stm32_initialize_mcu"].left = PROBE_PERIOD]))

\* the 2000 ms interval comes due
WatchdogTick ==
    /\ Watchdog.active /\ InTime
    /\ Probe.active => Watchdog.left <= Probe.left
    /\ Commit(STM32_timeout([Self EXCEPT
                       \* ticks in a row that found the flag cleared
                       !.idleTicks = IF upload_process_alive THEN 0 ELSE @ + 1,
                       !.ticksSinceSend = @ + 1,
                       !.timers["stm32_initialize_mcu"].left =
                           IF Probe.active THEN @ - Watchdog.left ELSE @,
                       !.timers["STM32_timeout"].left = WATCHDOG_PERIOD]))

\* the port is closed: serial.disconnect calls back cleanup
Disconnected ==
    /\ disconnecting
    /\ Commit(cleanup([Self EXCEPT !.disconnecting = FALSE]))

Next ==
    \/ \E h \in Images, e \in BOOLEAN : connect(h, e)
    \/ PortOpened
    \/ PortOpenFailed
    \/ DeviceRespond
    \/ Receive
    \/ ProbeTick
    \/ WatchdogTick
    \/ Disconnected

Spec == Init /\ [][Next]_vars

NextFaithful ==
    \/ \E h \in Images, e \in BOOLEAN : connect(h, e)
    \/ PortOpened
    \/ PortOpenFailed
    \/ DeviceRespond
    \/ Receive
    \/ WatchdogTick
    \/ Disconnected

SpecFaithful ==
    /\ InitFaithful /\ [][NextFaithful]_vars
    /\ WF_vars(PortOpened) /\ WF_vars(DeviceRespond) /\ WF_vars(Receive)
    /\ WF_vars(WatchdogTick) /\ WF_vars(Disconnected)

---------------------------------------------------------------------------
(* One session on a new object, with images that fit and one that does not *)

connectOnce(h, erase_chip) == session = 0 /\ connect(h, erase_chip)

NextOversize ==
    \/ \E h \in Images \cup {OversizeImage}, e \in BOOLEAN : connectOnce(h, e)
    \/ PortOpened
    \/ PortOpenFailed
    \/ DeviceRespond
    \/ Receive
    \/ ProbeTick
    \/ WatchdogTick
    \/ Disconnected

SpecOversize == Init /\ [][NextOversize]_vars

---------------------------------------------------------------------------
(* One session on a new object with a single-segment image of one to three  *)
(* pages                                                                    *)

NextPages ==
    \/ \E h \in PageImages, e \in BOOLEAN : connectOnce(h, e)
    \/ PortOpened
    \/ PortOpenFailed
    \/ DeviceRespond
    \/ Receive
    \/ ProbeTick
    \/ WatchdogTick
    \/ Disconnected

SpecPages == Init /\ [][NextPages]_vars

---------------------------------------------------------------------------
(* One session on a new object, with the images above and one whose last    *)
(* segment does not end highest                                             *)

NextCover ==
    \/ \E h \in Images \cup {NestedImage}, e \in BOOLEAN : connectOnce(h, e)
    \/ PortOpened
    \/ PortOpenFailed
    \/ DeviceRespond
    \/ Receive
    \/ ProbeTick
    \/ WatchdogTick
    \/ Disconnected

SpecCover == Init /\ [][NextCover]_vars

---------------------------------------------------------------------------
(* One session on a new object, with the images above and images whose only *)
(* segment lies many pages into the flash or beyond it                      *)

NextSparse ==
    \/ \E h \in Images \cup HighImages, e \in BOOLEAN : connectOnce(h, e)
    \/ PortOpened
    \/ PortOpenFailed
    \/ DeviceRespond
    \/ Receive
    \/ ProbeTick
    \/ WatchdogTick
    \/ Disconnected

SpecSparse == Init /\ [][NextSparse]_vars

---------------------------------------------------------------------------
(* The comparison that ends phase 6, taken alone.  No session gets as far   *)
(* (upload_procedure(6) throws before it reads anything), so the decision   *)
(* of lines 795-819 is checked as a function of the image and of the bytes  *)
(* read back: the specification starts where the reading loop would end.    *)

\* what reading() leaves in verify_hex: as many bytes per block as the block
\* has, each equal to the payload's or, for one of them, different
ReadBacks(h) ==
    LET good == [i \in 1..Len(h.data) |-> h.data[i].data]
    IN  {good} \cup
        UNION { { [good EXCEPT ![i][k] = (@ + 1) % 256] :
                      k \in {1, 2, ShortLen, LongLen} \cap (1..Len(good[i])) } :
                  i \in 1..Len(h.data) }

InitVerify ==
    /\ hex \in Images /\ verify_hex \in ReadBacks(hex)
    /\ options \in [erase_chip : BOOLEAN] /\ callback = 1
    /\ receive_buffer = <<>> /\ bytesToRead = 0 /\ read_callback = Null
    /\ upload_process_alive = TRUE
    /\ available_flash_size = 131072 /\ page_size = 1024
    /\ useExtendedErase \in BOOLEAN
    /\ sendCounter = 0 /\ blocks = Len(hex.data) - 1
    /\ flashing_block = Len(hex.data) - 1 /\ address = 0
    /\ bytes_flashed = 0 /\ bytesToWrite = 0
    /\ timers = [n \in {"stm32_initialize_mcu", "STM32_timeout"} |->
                    IF n = "STM32_timeout"
                    THEN [active |-> TRUE, left |-> WATCHDOG_PERIOD] ELSE TimerOff]
    /\ connectionId = TRUE /\ listening = TRUE /\ disconnecting = FALSE
    /\ line = <<>> /\ devAwait = FALSE
    /\ session = 1 /\ stage = "running" /\ step = 6 /\ sent = <<>>
    /\ dataChunks = <<>> /\ messages = {} /\ threw = FALSE
    /\ phase99Count = 0 /\ disconnectCount = 0 /\ callbackCount = 0
    /\ rxBlocks = <<>> /\ silent = TRUE /\ idleTicks = 0
    /\ ticksSinceSend = 0
    /\ device = "any"

\* reading() finds every block read and verifies
VerifyEnd ==
    /\ step = 6 /\ stage = "running" /\ phase99Count = 0
    /\ Commit(reading_verify(Self))

NextVerify ==
    \/ VerifyEnd
    \/ DeviceRespond
    \/ Receive
    \/ WatchdogTick
    \/ Disconnected

SpecVerify == InitVerify /\ [][NextVerify]_vars

---------------------------------------------------------------------------
(* Properties of a session *)

GoFrame == << CMD_go, 222 >>
GoAddressFrame == << 8, 0, 0, 0, 8 >>
EraseOrWriteCommands ==
    { << CMD_erase, 188 >>, << CMD_extended_erase, 187 >>,
      << CMD_write_memory, 206 >> }
Payloads == [i \in 1..Len(hex.data) |-> hex.data[i].data]
SignatureOf(data) == (data[1] * 256) + data[2]
GoThenAddress ==
    /\ Len(sent) >= 2
    /\ sent[Len(sent) - 1] = GoFrame
    /\ sent[Len(sent)] = GoAddressFrame

\* C1: once the teardown of a started session is over, the completion
\* callback given to connect has been invoked exactly once, and it is never
\* invoked before phase 99 has run and the port is closed.
C1_CallbackOnceAfterTeardown ==
    /\ stage = "finished" => callbackCount = 1
    /\ callbackCount > 0 => (callbackCount = 1 /\ phase99Count > 0 /\ ~connectionId)

\* C2: with a device that follows the protocol and answers in time, a chip
\* of known geometry and an image that fits, a session is over only after
\* GO [0x21, 0xDE] and then the address frame of 0x08000000 went out, with
\* no error reported and nothing thrown on the way.
C2_FaithfulSessionEndsWithGo ==
    stage = "finished" => (GoThenAddress /\ messages = {} /\ ~threw)

\* C3: with the same device, when the session is over the verification
\* buffer of every segment is byte-equal to the segment's payload.
C3_RoundTrip == stage = "finished" => verify_hex = Payloads

\* C4: the data frame handed to send for a chunk with payload P of N bytes
\* has N + 2 bytes: N - 1, then P in order, then (N - 1) XOR P[0] XOR ...
C4_DataFrame ==
    \A i \in 1..Len(dataChunks) :
        LET P == dataChunks[i].payload
            N == Len(P)
            frame == dataChunks[i].frame
        IN  /\ 1 <= N /\ N <= CHUNK
            /\ Len(frame) = N + 2
            /\ frame[1] = N - 1
            /\ \A k \in 1..N : frame[k + 1] = P[k]
            /\ frame[N + 2] = XorFold(N - 1, P)

\* C5: in every session on the shared object, a GET ID signature without
\* known geometry (recognized or not) takes the session from phase 3 to
\* phase 99 and no erase or write command is transmitted.
C5_UnknownChipAborts ==
    \A i \in 1..Len(rxBlocks) :
        (rxBlocks[i].cb = "get_ID_block"
             /\ SignatureOf(rxBlocks[i].data) \notin KnownIds)
        => /\ rxBlocks[i].to = 99
           /\ \A j \in 1..Len(sent) : sent[j] \notin EraseOrWriteCommands

\* C6: once phase 99 has been entered in a session, no later step of that
\* session transmits a byte or enters another phase.
C6_Phase99OneWay ==
    [][(phase99Count > 0 /\ session' = session)
          => (sent' = sent /\ step' = step)]_vars

\* a session that the watchdog ended while a read was pending, now over
C6_Witness ==
    /\ stage = "finished" /\ phase99Count = 1
    /\ bytesToRead # 0 /\ "stm32TimedOut" \in messages

\* C7: in any session phase 99 runs at most once and the port is closed at
\* most once.
C7_Phase99AtMostOnce == phase99Count <= 1 /\ disconnectCount <= 1

\* a session ended by a wrong response byte, port closed, teardown over
C7_Witness ==
    /\ stage = "finished" /\ phase99Count = 1 /\ disconnectCount = 1
    /\ "stm32WrongResponse" \in messages

FlashSizeOf(signature) == signatureGeometry(signature).flash
EraseCommands == { << CMD_erase, 188 >>, << CMD_extended_erase, 187 >> }

\* C11: when GET ID names a chip of known geometry, phase 3 goes on to phase
\* 4 if and only if hex.bytes_total is below the chip's flash size; otherwise
\* (equal or above) it goes to phase 99, no erase command is transmitted and
\* the port is closed.
C11_OversizeAborts ==
    \A i \in 1..Len(rxBlocks) :
        (rxBlocks[i].cb = "get_ID_block"
             /\ SignatureOf(rxBlocks[i].data) \in KnownIds)
        => LET fits == hex.bytes_total < FlashSizeOf(SignatureOf(rxBlocks[i].data))
           IN  /\ rxBlocks[i].to = 4 <=> fits
               /\ ~fits => /\ rxBlocks[i].to = 99 /\ phase99Count = 1
                           /\ ~connectionId /\ disconnectCount = 1
                           /\ \A j \in 1..Len(sent) : sent[j] \notin EraseCommands

\* an image of exactly the flash size of chip 0x414 was refused: the session
\* is over, the port closed, nothing sent after GET ID
C11_Witness ==
    /\ stage = "finished" /\ hex.bytes_total = FlashSizeOf(1044)
    /\ \E i \in 1..Len(rxBlocks) :
           /\ rxBlocks[i].cb = "get_ID_block"
           /\ SignatureOf(rxBlocks[i].data) = 1044 /\ rxBlocks[i].to = 99
    /\ sent[Len(sent)] = << CMD_get_ID, 253 >> /\ ~connectionId

\* the chunks written so far for block b (0-based), in order
ChunksOf(b) == SelectSeq(dataChunks, LAMBDA c : c.block = b)

RECURSIVE ConcatPayloads(_)
ConcatPayloads(cs) ==
    IF cs = <<>> THEN <<>> ELSE Head(cs).payload \o ConcatPayloads(Tail(cs))

\* the writer has left block b behind
BlockWritten(b) == step = 6 \/ (step = 5 /\ flashing_block > b)

\* C12: for a segment of L bytes the writer sends ceil(L/256) data frames;
\* every chunk but the last of the segment has 256 payload bytes, the first
\* byte of each data frame is the chunk length minus one, and the chunks of
\* a written segment are its payload cut in order, L bytes in all.
C12_Chunking ==
    session > 0 =>
    \A b \in 0..(Len(hex.data) - 1) :
        LET cs == ChunksOf(b)
            L == hex.data[b + 1].bytes
        IN  /\ \A i \in 1..Len(cs) :
                   /\ cs[i].frame[1] = Len(cs[i].payload) - 1
                   /\ i < Len(cs) => Len(cs[i].payload) = CHUNK
                   /\ Len(cs[i].payload) \in 1..CHUNK
            /\ Len(cs) <= MathCeilDiv(L, CHUNK)
            /\ BlockWritten(b) => /\ Len(cs) = MathCeilDiv(L, CHUNK)
                                  /\ ConcatPayloads(cs) = hex.data[b + 1].data

\* both segments of the long image written: 256 + 1 bytes, then 2 bytes
C12_Witness ==
    /\ step = 6 /\ Len(hex.data) = 2 /\ Len(dataChunks) = 3
    /\ Len(ChunksOf(0)) = 2 /\ Len(dataChunks[1].payload) = CHUNK
    /\ Len(ChunksOf(1)) = 1

\* byte k (0 the lowest) of a 32-bit number
ByteOf(a, k) == (a \div Pow2(8 * k)) % 256

BigEndian(a) == << ByteOf(a, 3), ByteOf(a, 2), ByteOf(a, 1), ByteOf(a, 0) >>

\* C13: the five bytes transmitted as the address frame of a chunk at address
\* A are the four bytes of A, highest first, and then the XOR of those four.
C13_AddressFrame ==
    \A i \in 1..Len(dataChunks) :
        LET A == dataChunks[i].at
            be == BigEndian(A)
        IN  dataChunks[i].addr =
                Append(be, BitXor(BitXor(be[1], be[2]), BitXor(be[3], be[4])))

\* the second chunk of the long image went out at 0x08000100
C13_Witness ==
    \E i \in 1..Len(dataChunks) :
        /\ dataChunks[i].at = FLASH_BASE + CHUNK
        /\ dataChunks[i].addr = << 8, 0, 1, 0, 9 >>

\* the frame is a page list with two-byte page numbers 0, 1, ... after a
\* two-byte count, or the extended global-erase frame
ExtendedListForm(f) ==
    \/ f = << 255, 255, 0 >>
    \/ /\ Len(f) >= 5 /\ Len(f) % 2 = 1
       /\ \A k \in 0..(((Len(f) - 3) \div 2) - 1) :
              f[3 + 2 * k] = k \div 256 /\ f[4 + 2 * k] = k % 256

\* the frame is a page list with one-byte page numbers 0, 1, ... after a
\* one-byte count, or the classic global-erase frame
ClassicListForm(f) ==
    \/ f = << 255, 0 >>
    \/ /\ Len(f) >= 3 /\ Len(f) # 5
       /\ \A k \in 0..(Len(f) - 3) : f[2 + k] = k

GetBlocks == SelectSeq(rxBlocks, LAMBDA b : b.cb = "get_block")

\* C14: in a session the flag is what byte 7 of the GET block said (== 0x44)
\* from the moment that block is read; an erase command is sent only after
\* that, at most once, with opcode 0x44 and two-byte page numbers when the
\* flag is set and opcode 0x43 and one-byte page numbers when it is not.
C14_EraseDialect ==
    /\ Len(GetBlocks) <= 1
    /\ GetBlocks # <<>>
          => useExtendedErase =
                (Len(GetBlocks[1].data) >= 8 /\ GetBlocks[1].data[8] = 68)
    /\ \A j \in 1..Len(sent) :
          sent[j] \in EraseCommands
          => /\ GetBlocks # <<>>
             /\ sent[j] = IF useExtendedErase THEN << 68, 187 >> ELSE << 67, 188 >>
             /\ \A k \in 1..Len(sent) : sent[k] \in EraseCommands => k = j
             /\ j < Len(sent)
                   => IF useExtendedErase THEN ExtendedListForm(sent[j + 1])
                                          ELSE ClassicListForm(sent[j + 1])

\* the GET block named 0x44 and a list of two pages went out in two-byte form
C14_Witness ==
    /\ GetBlocks # <<>> /\ Len(GetBlocks[1].data) >= 8
    /\ GetBlocks[1].data[8] = 68 /\ useExtendedErase
    /\ \E j \in 1..(Len(sent) - 1) :
           sent[j] = << 68, 187 >> /\ sent[j + 1] = << 0, 1, 0, 0, 0, 1, 0 >>

\* C15: for a single-segment image of L bytes at 0x08000000 and page size P,
\* the page list sent after the erase command of a partial erase declares the
\* count ceil(L/P) - 1 and then names the pages 0 .. ceil(L/P) - 1 in order,
\* two bytes each in the extended dialect and one byte each in the classic.
C15_ErasePageList ==
    \A j \in 1..(Len(sent) - 1) :
        (sent[j] \in EraseCommands /\ ~options.erase_chip
            /\ Len(hex.data) = 1 /\ hex.data[1].address = FLASH_BASE)
        => LET n == MathCeilDiv(hex.data[1].bytes, page_size)
               f == sent[j + 1]
           IN  IF sent[j] = << CMD_extended_erase, 187 >>
               THEN /\ Len(f) = 2 + 2 * n + 1
                    /\ f[1] = (n - 1) \div 256 /\ f[2] = (n - 1) % 256
                    /\ \A k \in 0..(n - 1) :
                           f[3 + 2 * k] = k \div 256 /\ f[4 + 2 * k] = k % 256
               ELSE /\ Len(f) = 1 + n + 1
                    /\ f[1] = n - 1
                    /\ \A k \in 0..(n - 1) : f[2 + k] = k

\* 1025 bytes on a chip with pages of 1024: the classic list names pages 0, 1
C15_Witness ==
    /\ session > 0 /\ hex.bytes_total = 1025 /\ page_size = 1024
    /\ ~options.erase_chip
    /\ \E j \in 1..(Len(sent) - 1) :
           sent[j] = << CMD_erase, 188 >> /\ sent[j + 1] = << 1, 0, 1, 0 >>

TimedOut == "stm32TimedOut" \in messages

\* C16 as claimed: the watchdog ends the session exactly when two ticks in
\* a row found alive == false; one such tick alone does not end it.
C16_TwoIdleTicks == TimedOut <=> idleTicks >= 2

\* C16 as amended: the watchdog ends the session exactly when one tick finds
\* alive == false, and phase 99 runs then; a tick that finds alive == true
\* clears the flag and neither reports nor ends anything.
C16_OneIdleTick ==
    /\ [](/\ TimedOut <=> idleTicks = 1
          /\ idleTicks <= 1
          /\ TimedOut => (step = 99 /\ phase99Count = 1 /\ ~Watchdog.active))
    /\ [][(upload_process_alive /\ ~upload_process_alive')
             => (messages' = messages /\ phase99Count' = phase99Count
                   /\ step' = step /\ idleTicks' = 0)]_vars

\* GET went out, a tick cleared the flag, the next tick found it cleared
C16_Witness ==
    /\ TimedOut /\ idleTicks = 1 /\ stage = "finished"
    /\ sent = << << PROBE >>, << CMD_get, 255 >> >> /\ ~upload_process_alive

\* C17: when the port could not be opened, the session has gone through
\* phase 99 and the completion callback has been invoked (once); nothing of
\* the session is pending after the failed open, so this is the final word.
C17_OpenFailureNotified ==
    stage = "open_failed" => (phase99Count = 1 /\ callbackCount = 1)

\* the bytes the listener hands to read() in this step, after those waiting
Delivered == receive_buffer \o SubSeq(line, 1, Len(line) - Len(line'))

\* the bytes the session asked for after its last frame: the count given to
\* send and, after an ACKed two-byte header of GET or GET ID, the count
\* given to retrieve as well
Expected(got) ==
    IF read_callback \in {"get_reply", "get_ID_reply"}
          /\ Len(got) >= 2 /\ got[1] = ACK
    THEN 2 + (got[2] + 1 + 1)
    ELSE bytesToRead

\* C18: a step that transmits a frame of phases 2 to 7 transmits one frame,
\* and does so while the port listener delivers bytes that complete what the
\* session asked for after the frame before; no timer transmits there.
C18_RequestThenResponse ==
    [][(Len(sent') > Len(sent) /\ session' = session /\ step' \in 2..7)
          => /\ Len(sent') = Len(sent) + 1
             /\ listening /\ bytesToRead > 0
             /\ Len(line') < Len(line)
             /\ Len(Delivered) >= Expected(Delivered)
             /\ timers'["STM32_timeout"] = timers["STM32_timeout"]]_vars

\* GET ID went out once the whole block of the GET answer (13 bytes after
\* the two-byte header) had been delivered
C18_Witness ==
    /\ Len(sent) >= 3 /\ sent[Len(sent)] = << CMD_get_ID, 253 >>
    /\ sent[Len(sent) - 1] = << CMD_get, 255 >>
    /\ GetBlocks # <<>> /\ Len(GetBlocks[1].data) = 13
    /\ read_callback = "get_ID_reply" /\ bytesToRead = 2

ReadCommand == << CMD_read_memory, 238 >>

\* C19: once the writer is through (the last data frame was ACKed) phase 6
\* has started reading back: it has one verification buffer per segment and
\* its first READ_MEMORY command [0x11, 0xEE] is on the wire, sent by the
\* step that entered the phase; nothing was thrown.
C19_ReadBackFollowsWrite ==
    step = 6 => /\ ~threw
                /\ Len(verify_hex) = Len(hex.data)
                /\ \E j \in 1..Len(sent) : sent[j] = ReadCommand

WriteCommand == << CMD_write_memory, 206 >>

WireAddress(a) ==
    LET be == BigEndian(a)
    IN  Append(be, BitXor(BitXor(be[1], be[2]), BitXor(be[3], be[4])))

\* the chunks of an image in the order of writing: block b, k-th chunk of it
RECURSIVE ChunkPlanFrom(_, _)
ChunkPlanFrom(h, b) ==
    IF b > Len(h.data) - 1 THEN <<>>
    ELSE [i \in 1..MathCeilDiv(h.data[b + 1].bytes, CHUNK) |->
             [block |-> b, k |-> i - 1]] \o ChunkPlanFrom(h, b + 1)

\* the frames from the first write command on
WriteFrames ==
    LET starts == {j \in 1..Len(sent) : sent[j] = WriteCommand}
    IN  IF starts = {} THEN <<>>
        ELSE SubSeq(sent, CHOOSE j \in starts : \A i \in starts : j <= i,
                    Len(sent))

WriteCallbacks == {"write_cmd", "write_address", "write_data"}

\* the port listener hands bytes to read() in this step (a watchdog tick
\* that closes the port empties the line as well, and counts an idle tick)
DeliveryStep ==
    listening /\ Len(line') < Len(line) /\ idleTicks' = idleTicks

\* C20: the frames of phase 5 come chunk by chunk as command [0x31, 0xCE],
\* address frame, data frame, the address frame of the k-th chunk of a
\* segment naming segment.address + 256 * k; a frame of the phase goes out
\* only in answer to ACK, and any other answer to one of the three frames
\* takes the session to phase 99 with nothing more sent.
C20_WriteOrder ==
    /\ [](session > 0 =>
          LET plan == ChunkPlanFrom(hex, 0)
          IN  \A i \in 1..Len(WriteFrames) :
                 LET c == ((i - 1) \div 3) + 1
                     r == (i - 1) % 3
                 IN  /\ c <= Len(plan)
                     /\ r = 0 => WriteFrames[i] = WriteCommand
                     /\ r = 1 => WriteFrames[i] =
                            WireAddress(hex.data[plan[c].block + 1].address
                                           + CHUNK * plan[c].k)
                     /\ r = 2 => /\ c <= Len(dataChunks)
                                 /\ WriteFrames[i] = dataChunks[c].frame
                                 /\ dataChunks[c].block = plan[c].block)
    /\ [][(session' = session /\ DeliveryStep /\ bytesToRead = 1
              /\ (read_callback \in WriteCallbacks \/ step' = 5))
           => IF Delivered[1] = ACK
              THEN read_callback \in WriteCallbacks
                      => (Len(sent') = Len(sent) + 1 \/ step' = 6)
              ELSE sent' = sent /\ step' = 99]_vars

\* the three chunks of the long image written: nine frames, the second
\* chunk at 0x08000100 and the third at the second segment's address
C20_Witness ==
    /\ step = 6 /\ Len(hex.data) = 2 /\ Len(WriteFrames) = 9
    /\ WriteFrames[5] = << 8, 0, 1, 0, 9 >>
    /\ WriteFrames[8] = << 8, 0, 4, 0, 12 >>

EraseCallbacks ==
    {"extended_global_cmd", "extended_local_cmd", "global_cmd", "local_cmd",
     "erase_done"}

\* C21: a write command [0x31, 0xCE] is on the wire only after the erase
\* command and the frame after it (global payload or page list) went out
\* and were each answered with ACK; any other answer to one of the two takes
\* the session to phase 99 with nothing more sent.
C21_EraseBeforeWrite ==
    /\ [](\A j \in 1..Len(sent) :
             (sent[j] = WriteCommand /\ \A i \in 1..(j - 1) : sent[i] # WriteCommand)
             => (j >= 3 /\ sent[j - 2] \in EraseCommands))
    /\ [][(session' = session /\ DeliveryStep /\ bytesToRead = 1
              /\ read_callback \in EraseCallbacks)
           => IF Delivered[1] = ACK
              THEN /\ Len(sent') = Len(sent) + 1
                   /\ (sent'[Len(sent')] = WriteCommand)
                          <=> read_callback = "erase_done"
              ELSE sent' = sent /\ step' = 99]_vars

\* the page list was NACKed: phase 99 with two erase frames and no write
C21_Witness ==
    /\ step = 99 /\ read_callback = "erase_done"
    /\ "stm32WrongResponse" \in messages
    /\ sent[Len(sent) - 1] \in EraseCommands
    /\ \A j \in 1..Len(sent) : sent[j] # WriteCommand

\* the pages a page-list frame names, read off the frame as transmitted
ListedPages(cmd, f) ==
    IF cmd = << CMD_extended_erase, 187 >>
    THEN { f[3 + 2 * k] * 256 + f[4 + 2 * k] : k \in 0..(((Len(f) - 3) \div 2) - 1) }
    ELSE { f[2 + k] : k \in 0..(Len(f) - 3) }

\* the flash pages holding a byte of a chunk written in phase 5
PagesOfChunk(c) ==
    { (a - FLASH_BASE) \div page_size :
          a \in (c.at)..(c.at + Len(c.payload) - 1) }

Ascending(h) ==
    /\ \A i \in 1..Len(h.data) : h.data[i].address >= FLASH_BASE
    /\ \A i \in 1..(Len(h.data) - 1) : h.data[i].address < h.data[i + 1].address

LastEndsHighest(h) ==
    LET last == h.data[Len(h.data)]
    IN  \A i \in 1..Len(h.data) :
           h.data[i].address + h.data[i].bytes <= last.address + last.bytes

\* in a partial erase, every page with a byte written is in the page list
PagesCovered ==
    \A j \in 1..(Len(sent) - 1) :
        (sent[j] \in EraseCommands /\ ~options.erase_chip)
        => \A i \in 1..Len(dataChunks) :
              PagesOfChunk(dataChunks[i]) \subseteq ListedPages(sent[j], sent[j + 1])

\* C22 as claimed: for every image with segments in ascending address order
\* at or above 0x08000000, the page list of the partial erase names every
\* page that holds a byte written in phase 5.
C22_PagesCoveredAscending ==
    (session > 0 /\ Ascending(hex)) => PagesCovered

\* C22 as amended: the same for images in which, besides, no segment ends
\* beyond the end of the last one.
C22_PagesCoveredLastHighest ==
    (session > 0 /\ Ascending(hex) /\ LastEndsHighest(hex)) => PagesCovered

\* the long image on pages of 1024 bytes: its second segment, a page after
\* the first, was written and the list named pages 0 and 1
C22_Witness ==
    /\ session > 0 /\ Len(hex.data) = 2 /\ LastEndsHighest(hex)
    /\ page_size = 1024 /\ ~options.erase_chip /\ Len(dataChunks) = 3
    /\ PagesOfChunk(dataChunks[3]) = {1}
    /\ \E j \in 1..(Len(sent) - 1) :
           sent[j] \in EraseCommands /\ ListedPages(sent[j], sent[j + 1]) = {0, 1}

\* the page count of a partial erase of the image, from the claim's formula
PageCount ==
    LET last == hex.data[Len(hex.data)]
    IN  MathCeilDiv(last.address + last.bytes - FLASH_BASE, page_size)

\* the last byte of the frame is the XOR of all the bytes before it
ChecksumLast(f) == f[Len(f)] = XorRange(f, 1, Len(f) - 1)

GlobalPayloadOf(cmd) ==
    IF cmd = << CMD_extended_erase, 187 >> THEN << 255, 255, 0 >>
                                           ELSE << 255, 0 >>

\* C24: with erase_chip set the erase takes exactly two frames, [0x44, 0xBB]
\* then [0xFF, 0xFF, 0x00] or [0x43, 0xBC] then [0xFF, 0x00]; the second goes
\* out only in answer to ACK to the first, phase 5 starts only in answer to
\* ACK to the second, and the frame after the two is the first write command.
C24_GlobalErase ==
    /\ []((session > 0 /\ options.erase_chip) =>
           /\ Cardinality({j \in 1..Len(sent) : sent[j] \in EraseCommands}) <= 1
           /\ \A j \in 1..Len(sent) :
                  sent[j] \in EraseCommands
                  => /\ j + 1 <= Len(sent)
                            => sent[j + 1] = GlobalPayloadOf(sent[j])
                     /\ j + 2 <= Len(sent) => sent[j + 2] = WriteCommand
                     /\ step \in 5..7 => j + 2 <= Len(sent))
    /\ [][(session' = session /\ DeliveryStep /\ bytesToRead = 1
              /\ read_callback \in EraseCallbacks /\ options.erase_chip)
           => IF Delivered[1] = ACK
              THEN IF read_callback = "erase_done"
                   THEN step' = 5
                   ELSE /\ step' = 4
                        /\ sent' = Append(sent,
                                       GlobalPayloadOf(sent[Len(sent)]))
              ELSE sent' = sent /\ step' = 99]_vars

\* a global extended erase done and phase 5 started
C24_Witness ==
    /\ session > 0 /\ options.erase_chip /\ step = 5
    /\ \E j \in 1..(Len(sent) - 2) :
           /\ sent[j] = << CMD_extended_erase, 187 >>
           /\ sent[j + 1] = << 255, 255, 0 >>
           /\ sent[j + 2] = WriteCommand

\* C25: in phases 2 to 7 the watchdog is armed, and a session whose device
\* has gone quiet (nothing more, or fewer bytes than the pending read asks
\* for) does not outlast the second watchdog tick after its last frame: that
\* tick reports the timeout, enters phase 99 and leaves the watchdog removed.
C25_WatchdogEndsSilence ==
    /\ [](step \in 2..7 => (Watchdog.active /\ ticksSinceSend <= 1))
    /\ [][(step \in 2..7 /\ ticksSinceSend' = ticksSinceSend + 1
              /\ ticksSinceSend = 1)
           => (step' = 99 /\ TimedOut' /\ phase99Count' = phase99Count + 1
                  /\ ~timers'["STM32_timeout"].active)]_vars

\* GET went out, the device sent one of the two bytes asked for and then
\* nothing: the second tick after the frame ended the session
C25_Witness ==
    /\ step = 99 /\ TimedOut /\ ticksSinceSend = 2 /\ ~Watchdog.active
    /\ sent[Len(sent)] = << CMD_get, 255 >>
    /\ bytesToRead = 2 /\ Len(receive_buffer) = 1

\* the blocks taken after the header of GET ID
GetIdBlocks == SelectSeq(rxBlocks, LAMBDA b : b.cb = "get_ID_block")

\* C26: a GET ID response whose length byte is not 1 (the block after the
\* header is then not the two id bytes and the ACK) takes the session to
\* phase 99: no chip is resolved from it and no erase follows.
C26_LengthByteChecked ==
    \A i \in 1..Len(GetIdBlocks) :
        Len(GetIdBlocks[i].data) # 3
        => /\ GetIdBlocks[i].to = 99
           /\ \A j \in 1..Len(sent) : sent[j] \notin EraseCommands

HeaderCallbacks == {"get_reply", "get_ID_reply"}
BlockCallbacks == {"get_block", "get_ID_block"}

\* C27: when the port listener hands over bytes, a pending read of N bytes
\* that the buffer now covers is delivered in that step, once, with the first
\* N bytes in arrival order, and the bytes after them stay in the buffer for
\* the read registered next; a read not yet covered, or none pending, leaves
\* the bytes appended and nothing else changed. No state has a pending read
\* of N bytes over a buffer of N or more, however the bytes were split.
C27_PendingRead ==
    /\ [](~(bytesToRead > 0 /\ Len(receive_buffer) >= bytesToRead))
    /\ [][(session' = session /\ DeliveryStep)
           => LET N == bytesToRead
                  first == SubSeq(Delivered, 1, N)
                  rest == SubSeq(Delivered, N + 1, Len(Delivered))
              IN  IF N > 0 /\ Len(Delivered) >= N
                  THEN \* delivered: the registration is used up
                       /\ \/ bytesToRead' = 0
                          \/ Len(sent') = Len(sent) + 1
                          \/ read_callback' \in BlockCallbacks
                       /\ (read_callback \in HeaderCallbacks /\ first[1] = ACK)
                          => LET n == first[2] + 1 + 1
                             IN  IF Len(rest) >= n
                                 THEN /\ Len(rxBlocks') = Len(rxBlocks) + 1
                                      /\ rxBlocks'[Len(rxBlocks')].data =
                                             SubSeq(rest, 1, n)
                                 ELSE /\ bytesToRead' = n
                                      /\ receive_buffer' = rest
                                      /\ rxBlocks' = rxBlocks /\ sent' = sent
                       /\ read_callback \in BlockCallbacks
                          => /\ Len(rxBlocks') = Len(rxBlocks) + 1
                             /\ rxBlocks'[Len(rxBlocks')].data = first
                       /\ (/\ read_callback \notin (HeaderCallbacks \cup BlockCallbacks)
                           /\ read_callback # "probe_reply"
                           /\ first[1] # ACK)
                          => step' = 99
                  ELSE /\ receive_buffer' = Delivered
                       /\ UNCHANGED << bytesToRead, read_callback, sent, step,
                                       rxBlocks, messages >>]_vars

\* the answer to GET was taken in two reads, the header from its first two
\* bytes and the block of 13 from the bytes after them, and the read of the
\* next header is pending over an empty buffer
C27_Witness ==
    /\ GetBlocks # <<>> /\ Len(GetBlocks[1].data) = 13
    /\ GetBlocks[1].data[1] = 34 /\ GetBlocks[1].data[13] = ACK
    /\ read_callback = "get_ID_reply" /\ bytesToRead = 2
    /\ receive_buffer = <<>> /\ line = <<>>

\* C28: the probe interval runs in phase 1 only, and no probe 0x7F is
\* transmitted once the session has left phase 1: whichever way phase 1 ends,
\* the interval is gone before a frame of a later phase or the teardown.
C28_NoProbeAfterPhase1 ==
    /\ [](step # 1 => ~Probe.active)
    /\ [](\A j \in 1..Len(sent) :
             sent[j] = << PROBE >> => \A i \in 1..j : sent[i] = << PROBE >>)
    /\ [][(session' = session /\ Len(sent') > Len(sent)
              /\ sent'[Len(sent) + 1] = << PROBE >>)
           => step \in {0, 1}]_vars

\* the second probe was answered: GET is on the wire and the probe interval
\* is gone while the watchdog runs
C28_Witness ==
    /\ step = 2 /\ ~Probe.active /\ Watchdog.active
    /\ sent = << << PROBE >>, << PROBE >>, << CMD_get, 255 >> >>

\* C29: once chip verification has accepted the image, the page count n of
\* the partial erase lies in 1 .. available_flash_size / page_size, and the
\* classic list frame carries n - 1 and every page index 0 .. n - 1 as they
\* are, each in one byte.
C29_PageCountInRange ==
    (/\ session > 0 /\ ~options.erase_chip
     /\ \E i \in 1..Len(GetIdBlocks) : GetIdBlocks[i].to = 4)
    => /\ 1 <= PageCount
       /\ PageCount * page_size <= available_flash_size
       /\ \A j \in 1..(Len(sent) - 1) :
              sent[j] = << CMD_erase, 188 >>
              => /\ sent[j + 1][1] = PageCount - 1
                 /\ \A k \in 0..(PageCount - 1) : sent[j + 1][2 + k] = k

\* C30: the session only reads the firmware image: no step of a session
\* changes the segment list, a segment's address, byte count or payload, or
\* bytes_total, so the image at phase 99 is the one connect was given.
C30_ImageReadOnly ==
    [][session' = session => hex' = hex]_vars

\* the long image after all three of its chunks were written and the session
\* ended in phase 99: both segments are as they were handed to connect
C30_Witness ==
    /\ session > 0 /\ step = 99 /\ stage = "finished"
    /\ Len(dataChunks) = 3
    /\ hex = Image(<< Segment(FLASH_BASE, Pattern(LongLen, 3)),
                      Segment(FLASH_BASE + 1024, Pattern(ShortLen, 200)) >>)

\* C9: with a device that never sends a byte, a session that reached phase
\* 99 has transmitted exactly four 0x7F probes and nothing else, and phase
\* 99 ran once.
C9_SilentDeviceFourProbes ==
    (silent /\ phase99Count > 0)
    => (sent = [i \in 1..4 |-> << PROBE >>] /\ phase99Count = 1)

\* C10: phases 2 and 3 advance to the next phase only if the trailing byte
\* of the response block is ACK (the leading one is checked before the
\* block is read); any other trailing byte moves the session to phase 99.
C10_TrailingAck ==
    \A i \in 1..Len(rxBlocks) :
        LET data == rxBlocks[i].data
        IN  /\ rxBlocks[i].to \in {3, 4} => data[Len(data)] = ACK
            /\ data[Len(data)] # ACK => rxBlocks[i].to = 99

====
